---- MODULE Spec2Model ----
(***************************************************************************)
(* A-PIE: import extraction (utils/core.py _collect_import_names), the     *)
(* concurrent enrichment pipeline (fetch_api_descriptions and the          *)
(* streaming variant stream_analyze_uploaded_pe_bytes) and the batch       *)
(* lookup endpoint (web_app.py api_lookup).                                *)
(*                                                                         *)
(* Python strings and byte strings are sequences of one-character          *)
(* strings; a dict is a sequence of keys in insertion order (a dict used   *)
(* as an ordered set) or a function from its keys to its values.           *)
(***************************************************************************)
EXTENDS Integers, Sequences, FiniteSets, TLC

\* Python values that may be None or of several types carry their type.
None == [type |-> "NoneType"]
Str(s) == [type |-> "str", value |-> s]
Bytes(b) == [type |-> "bytes", value |-> b]
PyInt(n) == [type |-> "int", value |-> n]
List(items) == [type |-> "list", value |-> items]
Dict(items) == [type |-> "dict", value |-> items]

\* Python truthiness: `if v:` / `not v`.
Truthy(v) ==
  CASE v.type = "NoneType" -> FALSE
    [] v.type = "int" -> v.value # 0
    [] v.type = "dict" -> DOMAIN v.value # {}
    [] OTHER -> Len(v.value) > 0

\* ------------------------------------------------------------ bounds
\* Import entries in one binary, over all of its imported modules.
MaxImports == 2
\* Imported modules (DIRECTORY_ENTRY_IMPORT entries) in one binary.
MaxModules == 2
\* Candidate names handed to one pipeline run.
MaxNames == 3
\* Characters in the "api" string of a batch lookup request.
MaxFieldLen == 3
\* Items in the "api" list of a batch lookup request.
MaxListLen == 2
\* Calls of write_report in one behaviour.
MaxReports == 3

\* ------------------------------------------------------------ program constants
\* fetch_api_descriptions(..., max_workers: int = 12, ...)
DefaultMaxWorkers == 12
\* ThreadPoolExecutor(max_workers=12) of stream_analyze_uploaded_pe_bytes
StreamMaxWorkers == 12

\* ------------------------------------------------------------ strings
\* str.strip() with no argument trims whitespace at both ends.
IsSpace(c) == c \in {" ", "\t", "\n"}

RECURSIVE LStrip(_)
LStrip(s) == IF s # <<>> /\ IsSpace(Head(s)) THEN LStrip(Tail(s)) ELSE s

RECURSIVE RStrip(_)
RStrip(s) ==
  IF s # <<>> /\ IsSpace(s[Len(s)]) THEN RStrip(SubSeq(s, 1, Len(s) - 1)) ELSE s

Strip(s) == RStrip(LStrip(s))

\* s.replace(old, new) for one-character old and new.
Replace(s, old, new) == [i \in 1..Len(s) |-> IF s[i] = old THEN new ELSE s[i]]

\* The length of the longest prefix of s without whitespace.
RECURSIVE WordLen(_)
WordLen(s) == IF s = <<>> \/ IsSpace(Head(s)) THEN 0 ELSE 1 + WordLen(Tail(s))

\* s.split() with no argument: the words between runs of whitespace.
RECURSIVE Split(_)
Split(s) ==
  LET t == LStrip(s)
  IN  IF t = <<>> THEN <<>>
      ELSE <<SubSeq(t, 1, WordLen(t))>> \o Split(SubSeq(t, WordLen(t) + 1, Len(t)))

\* s.endswith(c) for a one-character c.
EndsWith(s, c) == s # <<>> /\ s[Len(s)] = c

\* s[:-1]
ButLast(s) == SubSeq(s, 1, Len(s) - 1)

\* The byte 0xFF is not valid UTF-8: bytes.decode("utf-8") raises on it.
BadByte == "0xFF"
Decodable(bytes) == \A i \in 1..Len(bytes) : bytes[i] # BadByte

Range(s) == {s[i] : i \in 1..Len(s)}

\* unique[key] = None on an insertion-ordered dict used as a set.
Put(unique, key) == IF key \in Range(unique) THEN unique ELSE Append(unique, key)

\* ------------------------------------------------------------ import extraction
\* The names the A/W heuristic adds for a trimmed import name, in order.
CounterpartsWideOnly(imp_name) ==
  IF EndsWith(imp_name, "W") THEN <<Append(ButLast(imp_name), "A")>> ELSE <<>>

Counterparts(imp_name) ==
  IF EndsWith(imp_name, "W") THEN <<Append(ButLast(imp_name), "A")>>
  ELSE IF EndsWith(imp_name, "A") THEN <<Append(ButLast(imp_name), "W")>>
  ELSE <<>>

RECURSIVE PutAll(_, _)
PutAll(unique, keys) ==
  IF keys = <<>> THEN unique ELSE PutAll(Put(unique, Head(keys)), Tail(keys))

\* The loop body keeping a name that is empty once trimmed.
AddImportKeepBlank(unique, imp) ==
  IF "name" \notin DOMAIN imp \/ imp.name = None THEN unique
  ELSE IF ~Decodable(imp.name.value) THEN unique
  ELSE LET imp_name == Strip(imp.name.value)
       IN  PutAll(Put(unique, imp_name), Counterparts(imp_name))

\* The body of the loop over entry.imports: one import entry folded into unique.
\* An exception (the decode of an undecodable name) skips the entry.
AddImport(unique, imp) ==
  IF "name" \notin DOMAIN imp \/ imp.name = None THEN unique
  ELSE IF ~Decodable(imp.name.value) THEN unique
  ELSE LET imp_name == Strip(imp.name.value)
       IN  IF imp_name = <<>> THEN unique
           ELSE PutAll(Put(unique, imp_name), Counterparts(imp_name))

RECURSIVE AddImports(_, _)
AddImports(unique, imports) ==
  IF imports = <<>> THEN unique
  ELSE AddImports(AddImport(unique, Head(imports)), Tail(imports))

\* getattr(pe, "DIRECTORY_ENTRY_IMPORT", []) or []
ImportDirectory(pe) ==
  IF "DIRECTORY_ENTRY_IMPORT" \notin DOMAIN pe THEN <<>>
  ELSE pe.DIRECTORY_ENTRY_IMPORT

RECURSIVE AddModules(_, _)
AddModules(unique, entries) ==
  IF entries = <<>> THEN unique
  ELSE AddModules(AddImports(unique, Head(entries).imports), Tail(entries))

CollectImportNames(pe) == AddModules(<<>>, ImportDirectory(pe))

\* ------------------------------------------------------------ inputs: binaries
\* Import entries: by ordinal (no name), and by name as the raw name bytes.
ImportBytes ==
  { <<"A">>, <<"W">>, <<"x", "W">>, <<" ", "x", "A">>, <<"x">>, <<" ">>,
    <<BadByte>> }

ImportEntries ==
  {[ordinal |-> 1], [name |-> None, ordinal |-> 2]}
    \cup {[name |-> Bytes(b)] : b \in ImportBytes}

SeqsOfLen(S, n) == [1..n -> S]

\* The import directories of at most m modules holding at most n entries in all.
RECURSIVE Directories(_, _)
Directories(m, n) ==
  IF m = 0 THEN {<<>>}
  ELSE {<<>>} \cup
       UNION { UNION { { <<[imports |-> imps]>> \o rest : rest \in Directories(m - 1, n - k) }
                       : imps \in SeqsOfLen(ImportEntries, k) }
               : k \in 0..n }

\* Parsed executables: without an import directory, or with one.
ParsedBinaries ==
  {[machine |-> "x86"]}
    \cup {[machine |-> "x86", DIRECTORY_ENTRY_IMPORT |-> d] : d \in Directories(MaxModules, MaxImports)}

\* ------------------------------------------------------------ the description source
\* What the remote endpoint answers for one name: an HTTP status and the text of
\* the page's ".detail-container .content" elements.
Title == <<"t">>
Responses ==
  { [status |-> 404, details |-> <<>>],
    [status |-> 200, details |-> <<Title>>],
    [status |-> 200, details |-> <<Title, <<" ">>>>],
    [status |-> 200, details |-> <<Title, <<" ", "d", " ">>>>] }

\* str(e) of the HTTPError that response.raise_for_status() raises.
HTTPErrorMessage(response) == <<"HTTP", "status", "error">>

\* How a call ends: it returns a value or raises an exception with a message.
Return(value) == [kind |-> "return", value |-> value]
Raise(error) == [kind |-> "raise", error |-> error]

\* {api_name: api_info}
SingleDict(key, value) == Dict([k \in {key} |-> value])

\* check_api without the emptiness test on the description.
CheckApiKeepEmpty(api_name, response) ==
  IF response.status >= 400 THEN Raise(HTTPErrorMessage(response))
  ELSE IF Len(response.details) < 2 THEN Return(None)
  ELSE Return(SingleDict(api_name, Strip(response.details[2])))

\* check_api(api_name, verbose, session) on the response the session gets.
\* (verbose only prints.)
CheckApi(api_name, response) ==
  IF response.status >= 400 THEN Raise(HTTPErrorMessage(response))
  ELSE LET details == response.details
       IN  IF details = <<>> \/ Len(details) < 2 THEN Return(None)
           ELSE LET api_info == Strip(details[2])
                IN  IF api_info = <<>> THEN Return(None)
                    ELSE Return(SingleDict(api_name, api_info))

\* ------------------------------------------------------------ dicts
EmptyDict == [k \in {} |-> <<>>]

\* results.update(res)
Update(results, res) ==
  [k \in DOMAIN results \cup DOMAIN res |->
     IF k \in DOMAIN res THEN res[k] ELSE results[k]]

\* res.get(name)
Get(res, name) == IF name \in DOMAIN res THEN Str(res[name]) ELSE None

\* ------------------------------------------------------------ the loop bodies
\* One call on_progress(name, hit, error), as the callback receives it.
Notification(name, hit, error) == [name |-> name, hit |-> hit, error |-> error]

\* The state the body of a collecting loop works on and leaves behind:
\* the report, what was emitted, and the exception leaving the body (or None).
Body(results, emitted, exception) ==
  [results |-> results, emitted |-> emitted, exception |-> exception]

\* The loop body of fetch_api_descriptions with the try/except removed.
FetchBodyNoExcept(name, outcome, results, emitted, on_progress, verbose, raising) ==
  IF outcome.kind = "raise" THEN Body(results, emitted, Str(outcome.error))
  ELSE LET res == outcome.value
       IN  IF Truthy(res)
           THEN Body(Update(results, res.value),
                     IF on_progress
                     THEN Append(emitted, Notification(name, Get(res.value, name), None))
                     ELSE emitted,
                     None)
           ELSE Body(results,
                     IF on_progress /\ verbose
                     THEN Append(emitted, Notification(name, None, None))
                     ELSE emitted,
                     None)

\* The loop body notifying a hit twice.
FetchBodyTwice(name, outcome, results, emitted, on_progress, verbose, raising) ==
  LET once == FetchBodyNoExcept(name, outcome, results, emitted, on_progress, verbose, raising)
  IN  IF outcome.kind = "raise"
      THEN Body(results,
                IF on_progress
                THEN Append(emitted, Notification(name, None, Str(outcome.error)))
                ELSE emitted,
                None)
      ELSE IF Truthy(outcome.value) /\ on_progress
      THEN Body(once.results,
                Append(once.emitted, Notification(name, Get(outcome.value.value, name), None)),
                None)
      ELSE once

\* The loop body never reporting a miss.
FetchBodySilentMiss(name, outcome, results, emitted, on_progress, verbose, raising) ==
  IF outcome.kind = "raise"
  THEN Body(results,
            IF on_progress
            THEN Append(emitted, Notification(name, None, Str(outcome.error)))
            ELSE emitted,
            None)
  ELSE IF Truthy(outcome.value)
  THEN FetchBodyNoExcept(name, outcome, results, emitted, on_progress, verbose, raising)
  ELSE Body(results, emitted, None)

\* str(e) of the exception a progress callback raises.
CallbackErrorMessage == <<"callback", "failed">>

\* The loop body of fetch_api_descriptions for the completed future of `name`:
\*   try: res = future.result(); if res: ... else: ...
\*   except Exception as e: ...
\* `emitted` are the calls the callback has received; it raises on the kinds of
\* notification in `raising`. An exception raised in the try block, by
\* future.result() or by the callback, is handled by the except clause; one the
\* callback raises there leaves the loop.
FetchBody(name, outcome, results, emitted, on_progress, verbose, raising) ==
  LET Handler(report, calls, error) ==
        IF on_progress
        THEN Body(report, Append(calls, Notification(name, None, Str(error))),
                  IF "error" \in raising THEN Str(CallbackErrorMessage) ELSE None)
        ELSE Body(report, calls, None)
  IN  IF outcome.kind = "raise"
      THEN \* future.result() re-raises what check_api raised
           Handler(results, emitted, outcome.error)
      ELSE LET res == outcome.value
           IN  IF Truthy(res)
               THEN LET updated == Update(results, res.value)
                        called == Append(emitted, Notification(name, Get(res.value, name), None))
                    IN  IF ~on_progress THEN Body(updated, emitted, None)
                        ELSE IF "hit" \in raising
                        THEN Handler(updated, called, CallbackErrorMessage)
                        ELSE Body(updated, called, None)
               ELSE LET called == Append(emitted, Notification(name, None, None))
                    IN  IF ~(on_progress /\ verbose) THEN Body(results, emitted, None)
                        ELSE IF "miss" \in raising
                        THEN Handler(results, called, CallbackErrorMessage)
                        ELSE Body(results, called, None)

\* The events of the stream.
Event(event, name, data) == [event |-> event, name |-> name, data |-> data]
MetaEvent(total) == Event("meta", <<>>, <<"total", total>>)
HitEvent(name, hit) == Event("hit", name, hit)
MissEvent(name) == Event("log", name, <<"miss">>)
ErrorEvent(name, error) == Event("log", name, <<"ERROR">> \o error)
DoneEvent == Event("done", <<>>, <<"END">>)

\* The loop body of the stream logging an error only when verbose.
StreamBodyQuietErrors(name, outcome, results, emitted, verbose) ==
  IF outcome.kind = "raise"
  THEN Body(results,
            IF verbose THEN Append(emitted, ErrorEvent(name, outcome.error)) ELSE emitted,
            None)
  ELSE LET res == outcome.value
       IN  IF Truthy(res)
           THEN Body(Update(results, res.value),
                     Append(emitted, HitEvent(name, Get(res.value, name).value)), None)
           ELSE Body(results,
                     IF verbose THEN Append(emitted, MissEvent(name)) ELSE emitted, None)

\* The loop body of stream_analyze_uploaded_pe_bytes for the completed future of
\* `name`: what it yields and what it records.
StreamBody(name, outcome, results, emitted, verbose) ==
  IF outcome.kind = "raise"
  THEN Body(results, Append(emitted, ErrorEvent(name, outcome.error)), None)
  ELSE LET res == outcome.value
       IN  IF Truthy(res)
           THEN Body(Update(results, res.value),
                     Append(emitted, HitEvent(name, Get(res.value, name).value)), None)
           ELSE Body(results,
                     IF verbose THEN Append(emitted, MissEvent(name)) ELSE emitted, None)

\* ------------------------------------------------------------ inputs: pipeline runs
\* The imports the sample executables are cut from.
ImportPool ==
  << [name |-> Bytes(<<"x">>)],
     [name |-> None, ordinal |-> 2],
     [name |-> Bytes(<<" ", "y", "A">>)],
     [name |-> Bytes(<<"z">>)] >>

SamplePE(k) ==
  [machine |-> "x86",
   DIRECTORY_ENTRY_IMPORT |-> <<[imports |-> SubSeq(ImportPool, 1, k)]>>]

\* Parsed executables handed to a pipeline run: at most MaxNames candidates.
SampleExecutables ==
  {[machine |-> "x86"]}
    \cup {SamplePE(k) : k \in {j \in 0..Len(ImportPool) :
                                 Len(CollectImportNames(SamplePE(j))) <= MaxNames}}

\* Uploaded file contents: nothing, bytes that are no executable, an executable.
EmptyData == [format |-> "empty"]
GarbageData == [format |-> "garbage"]
PEData(image) == [format |-> "PE", image |-> image]
SampleData == {GarbageData} \cup {PEData(image) : image \in SampleExecutables}

\* A parse that takes whatever it is given for an executable without imports.
ParsePELenient(data) ==
  Return(IF data.format = "PE" THEN data.image ELSE [machine |-> "x86"])

\* pefile.PE(path, fast_load=True); pe.parse_data_directories()
ParsePE(data) ==
  IF data.format = "PE" THEN Return(data.image)
  ELSE Raise(<<"PEFormatError">>)

\* Candidate sets handed to fetch_api_descriptions directly.
NamePool == CollectImportNames(SamplePE(Len(ImportPool)))
CandidateLists ==
  {SubSeq(NamePool, 1, k) : k \in {j \in 0..Len(NamePool) : j <= MaxNames}}

\* The orders in which a set can be listed.
Orders(S) ==
  {s \in [1..Cardinality(S) -> S] : \A i, j \in 1..Cardinality(S) : s[i] = s[j] => i = j}

VARIABLES
  pc,             \* where the running operation stands
  stack,          \* the functions entered and not yet left, outermost first
  pe,             \* the parsed executable (None when there is none)
  cursor,         \* extraction: <<module index, import index>> of the next entry
  unique,         \* the candidate names collected, in insertion order
  verbose,        \* the verbose argument of the run
  on_progress,    \* whether a progress callback was given
  max_workers,    \* size of the worker pool
  api_names,      \* the names given to the pipeline, in iteration order
  futures,        \* the futures submitted, in submission order
  source,         \* the description source: the response it gave for each name asked
  finished,       \* as_completed: completed futures about to be yielded, in order
  waiterQ,        \* as_completed: the waiter's finished_futures, in completion order
  collected,      \* the futures as_completed has yielded
  results,        \* the report being accumulated
  notifications,  \* the calls the progress callback received, in order
  events,         \* the events the stream has yielded, in order
  exception,      \* the exception propagating out of the run (None when there is none)
  tmp,            \* whether the temporary file exists
  request,        \* the HTTP request being served (None when there is none)
  reports,        \* the files under reports/: what was written to each, in order
  response,       \* what the operation returned to its caller (None while running)
  raises,         \* the kinds of notification on which the progress callback raises
  arrived,        \* the completed futures not yet collected, in completion order,
                  \* as an observer of the pool records them (when one is attached)
  history         \* the calls made and ended before the running one, in order

vars ==
  <<pc, stack, pe, cursor, unique, verbose, on_progress, max_workers, api_names,
    futures, source, finished, waiterQ, collected, results, notifications,
    events, exception, tmp, request, reports, response, raises, arrived, history>>

poolVars == <<futures, source, finished, waiterQ, collected>>
runVars == <<verbose, on_progress, max_workers, api_names>>
extractVars == <<pe, cursor, unique>>

Top == stack[Len(stack)]

\* Nothing is running and nothing has run.
Init ==
  /\ pc = "idle"
  /\ stack = <<>>
  /\ pe = None
  /\ cursor = <<1, 1>>
  /\ unique = <<>>
  /\ verbose = FALSE
  /\ on_progress = FALSE
  /\ max_workers = DefaultMaxWorkers
  /\ api_names = <<>>
  /\ futures = <<>>
  /\ source = EmptyDict
  /\ finished = <<>>
  /\ waiterQ = <<>>
  /\ collected = {}
  /\ results = EmptyDict
  /\ notifications = <<>>
  /\ events = <<>>
  /\ exception = None
  /\ tmp = FALSE
  /\ request = None
  /\ reports = EmptyDict
  /\ response = None
  /\ raises = {}
  /\ arrived = <<>>
  /\ history = <<>>

\* ------------------------------------------------------------ the worker pool
Indices == 1..Len(futures)
InState(state) == {i \in Indices : futures[i].state = state}
AllDone == \A i \in Indices : futures[i].state = "done"

\* pool.submit(check_api, name, verbose, session) for the next name.
Submit ==
  /\ pc = "submit"
  /\ Len(futures) < Len(api_names)
  /\ futures' = Append(futures, [name |-> api_names[Len(futures) + 1],
                                 state |-> "queued", outcome |-> None])
  /\ UNCHANGED <<pc, stack, extractVars, runVars, source, finished, waiterQ,
                 collected, results, notifications, events, exception, tmp, response, request, reports, raises, arrived, history>>

\* A pool that starts a thread for every task, whatever max_workers says.
WorkerStartUnbounded(i) ==
  /\ futures[i].state = "queued"
  /\ \A j \in 1..(i - 1) : futures[j].state # "queued"
  /\ futures' = [futures EXCEPT ![i].state = "running"]
  /\ UNCHANGED <<pc, stack, extractVars, runVars, source, finished, waiterQ,
                 collected, results, notifications, events, exception, tmp, response,
                 request, reports, raises, arrived, history>>

\* A free worker takes the oldest queued task and calls check_api: the lookup starts.
WorkerStart(i) ==
  /\ futures[i].state = "queued"
  /\ \A j \in 1..(i - 1) : futures[j].state # "queued"
  /\ Cardinality(InState("running")) < max_workers
  /\ futures' = [futures EXCEPT ![i].state = "running"]
  /\ UNCHANGED <<pc, stack, extractVars, runVars, source, finished, waiterQ,
                 collected, results, notifications, events, exception, tmp, response, request, reports, raises, arrived, history>>

\* check_api handed the report and writing its hit there itself.
CompletesAndRecords(i) ==
  /\ futures[i].state = "running"
  /\ \E answer \in Responses :
       LET outcome == CheckApi(futures[i].name, answer)
       IN  /\ futures[i].name \in DOMAIN source => answer = source[futures[i].name]
           /\ source' = Update(source, [k \in {futures[i].name} |-> answer])
           /\ futures' = [futures EXCEPT ![i].state = "done", ![i].outcome = outcome]
           /\ results' = IF outcome.kind = "return" /\ Truthy(outcome.value)
                         THEN Update(results, outcome.value.value)
                         ELSE results
  /\ waiterQ' = IF pc = "collect" THEN Append(waiterQ, i) ELSE waiterQ
  /\ UNCHANGED <<pc, stack, extractVars, runVars, finished, collected,
                 notifications, events, exception, tmp, response, request, reports,
                 raises, history>>

\* check_api ends: the source answers (the same answer whenever it is asked the same
\* name), and the future completes with what check_api returned or raised.
Completes(i) ==
  /\ futures[i].state = "running"
  /\ \E answer \in Responses :
       /\ futures[i].name \in DOMAIN source => answer = source[futures[i].name]
       /\ source' = Update(source, [k \in {futures[i].name} |-> answer])
       /\ futures' = [futures EXCEPT ![i].state = "done",
                                     ![i].outcome = CheckApi(futures[i].name, answer)]
  /\ waiterQ' = IF pc = "collect" THEN Append(waiterQ, i) ELSE waiterQ
  /\ UNCHANGED <<pc, stack, extractVars, runVars, finished, collected, results,
                 notifications, events, exception, tmp, response, request, reports,
                 raises, history>>

WorkerFinish(i) == Completes(i) /\ UNCHANGED arrived

\* as_completed(future_to_name) starts: the futures already completed are yielded
\* first, in no particular order (a set); a waiter is installed for the others.
AsCompleted ==
  /\ pc = "submit"
  /\ Len(futures) = Len(api_names)
  /\ \E order \in Orders(InState("done")) : finished' = order
  /\ waiterQ' = <<>>
  /\ pc' = "collect"
  /\ UNCHANGED <<stack, extractVars, runVars, futures, source, collected, results,
                 notifications, events, exception, tmp, response, request, reports, raises, arrived, history>>

\* The future as_completed yields next: the head of the batch in hand, or, when
\* the batch is used up, the head of what the waiter has gathered since.
HasNext == finished # <<>> \/ waiterQ # <<>>
NextFuture == IF finished # <<>> THEN Head(finished) ELSE Head(waiterQ)
RestFinished == IF finished # <<>> THEN Tail(finished) ELSE Tail(waiterQ)
RestWaiterQ == IF finished # <<>> THEN waiterQ ELSE <<>>

\* The loop ending as soon as no completed future is at hand.
PoolLeftEarly ==
  IF pc = "collect" THEN ~HasNext
  ELSE pc = "unwind" /\ AllDone

\* The with-blocks can be left: the loop is over, or an exception is leaving it and
\* ThreadPoolExecutor.__exit__ has waited for every submitted task.
PoolLeft ==
  IF pc = "collect" THEN collected = Indices
  ELSE pc = "unwind" /\ AllDone

\* ------------------------------------------------------------ fetch_api_descriptions
\* fetch_api_descriptions(api_names, verbose, max_workers, on_progress) is called.
FetchCall(names, v, workers, callback) ==
  /\ pc = "idle"
  /\ stack' = <<"fetch_api_descriptions">>
  /\ api_names' = names
  /\ verbose' = v
  /\ max_workers' = workers
  /\ on_progress' = callback
  /\ pc' = "submit"
  /\ UNCHANGED <<extractVars, poolVars, results, notifications, events, exception,
                 tmp, response, request, reports, raises, arrived, history>>

\* One iteration of `for future in as_completed(...)` in fetch_api_descriptions.
FetchIteration ==
  /\ pc = "collect"
  /\ Top = "fetch_api_descriptions"
  /\ HasNext
  /\ LET i == NextFuture
         body == FetchBody(futures[i].name, futures[i].outcome, results,
                           notifications, on_progress, verbose, raises)
     IN  /\ results' = body.results
         /\ notifications' = body.emitted
         /\ exception' = body.exception
         /\ pc' = IF body.exception = None THEN "collect" ELSE "unwind"
         /\ collected' = collected \cup {i}
  /\ finished' = RestFinished
  /\ waiterQ' = RestWaiterQ
  /\ UNCHANGED <<stack, extractVars, runVars, futures, source, events, tmp, response,
                 request, reports, raises, history>>

FetchCollect == FetchIteration /\ UNCHANGED arrived

\* What fetch_api_descriptions hands its caller.
FetchResult == IF exception = None THEN Return(Dict(results)) ELSE Raise(exception.value)

\* `return results` slipped into the loop: the function returns after the first
\* iteration (once the pool has shut down).
FetchReturnInLoop ==
  /\ stack = <<"fetch_api_descriptions">>
  /\ IF pc = "collect" THEN collected # {} /\ AllDone ELSE pc = "unwind" /\ AllDone
  /\ response' = FetchResult
  /\ pc' = IF exception = None THEN "returned" ELSE "raised"
  /\ stack' = <<>>
  /\ UNCHANGED <<extractVars, runVars, poolVars, results, notifications, events,
                 exception, tmp, request, reports, raises, arrived, history>>

\* fetch_api_descriptions, called directly, returns results (or raises).
FetchReturn ==
  /\ stack = <<"fetch_api_descriptions">>
  /\ PoolLeft
  /\ response' = FetchResult
  /\ pc' = IF exception = None THEN "returned" ELSE "raised"
  /\ stack' = <<>>
  /\ UNCHANGED <<extractVars, runVars, poolVars, results, notifications, events,
                 exception, tmp, request, reports, raises, arrived, history>>

\* ------------------------------------------------------------ stream_analyze_uploaded_pe_bytes
\* The generator runs to its first yield: the temporary file is written, the
\* executable parsed, the candidates extracted and the meta event yielded; or
\* the parse raises and the finally clause removes the file.
StreamStart(caller, data, v) ==
  LET parsed == ParsePE(data)
  IN  /\ verbose' = v
      /\ max_workers' = StreamMaxWorkers
      /\ on_progress' = FALSE
      /\ IF parsed.kind = "raise"
         THEN /\ exception' = Str(parsed.error)
              /\ response' = Raise(parsed.error)
              /\ pc' = "raised"
              /\ tmp' = FALSE
              /\ stack' = <<>>
              /\ UNCHANGED <<pe, unique, api_names, events>>
         ELSE /\ pe' = parsed.value
              /\ unique' = CollectImportNames(parsed.value)
              /\ api_names' = unique'
              /\ events' = <<MetaEvent(Len(unique'))>>
              /\ tmp' = TRUE
              /\ pc' = "submit"
              /\ stack' = caller \o <<"stream_analyze_uploaded_pe_bytes">>
              /\ UNCHANGED <<exception, response>>
      /\ UNCHANGED <<cursor, poolVars, results, notifications, reports, raises, arrived, history>>

\* stream_analyze_uploaded_pe_bytes(data, verbose) is called and iterated.
StreamCall(data, v) ==
  /\ pc = "idle"
  /\ StreamStart(<<>>, data, v)
  /\ UNCHANGED request

\* One iteration of `for future in as_completed(...)` in the stream.
StreamIteration ==
  /\ pc = "collect"
  /\ Top = "stream_analyze_uploaded_pe_bytes"
  /\ HasNext
  /\ LET i == NextFuture
         body == StreamBody(futures[i].name, futures[i].outcome, results, events, verbose)
     IN  /\ results' = body.results
         /\ events' = body.emitted
         /\ exception' = body.exception
         /\ pc' = IF body.exception = None THEN "collect" ELSE "unwind"
         /\ collected' = collected \cup {i}
  /\ finished' = RestFinished
  /\ waiterQ' = RestWaiterQ
  /\ UNCHANGED <<stack, extractVars, runVars, futures, source, notifications, tmp,
                 response, request, reports, raises, history>>

StreamCollect == StreamIteration /\ UNCHANGED arrived

\* The done event yielded inside the loop, after an iteration.
StreamDoneInLoop ==
  /\ pc = "collect"
  /\ Top = "stream_analyze_uploaded_pe_bytes"
  /\ collected # {}
  /\ events[Len(events)] # DoneEvent
  /\ events' = Append(events, DoneEvent)
  /\ UNCHANGED <<pc, stack, extractVars, runVars, poolVars, results, notifications,
                 exception, tmp, response, request, reports, raises, arrived, history>>

\* The loop is over and the with-blocks are left: the done event is yielded.
StreamDone ==
  /\ pc = "collect"
  /\ Top = "stream_analyze_uploaded_pe_bytes"
  /\ PoolLeft
  /\ events' = Append(events, DoneEvent)
  /\ pc' = "done"
  /\ UNCHANGED <<stack, extractVars, runVars, poolVars, results, notifications,
                 exception, tmp, response, request, reports, raises, arrived, history>>

\* The exception raised at the yield where a generator is closed.
GeneratorExit == Str(<<"GeneratorExit">>)

\* The file removed after the done event instead of in a finally clause.
StreamFinishAfterDoneOnly ==
  /\ Len(stack) > 0
  /\ Top = "stream_analyze_uploaded_pe_bytes"
  /\ IF pc = "done" THEN TRUE ELSE pc = "unwind" /\ AllDone
  /\ tmp' = (pc # "done")
  /\ pc' = IF exception = None THEN "returned"
           ELSE IF exception = GeneratorExit THEN "closed" ELSE "raised"
  /\ response' = IF exception = None THEN Return(List(events))
                 ELSE IF exception = GeneratorExit THEN Return(None)
                 ELSE Raise(exception.value)
  /\ stack' = <<>>
  /\ UNCHANGED <<extractVars, runVars, poolVars, results, notifications, events,
                 exception, request, reports, raises, arrived, history>>

\* The generator ends (after done, or with the exception leaving it): the finally
\* clause removes the temporary file. A generator that was closed ends quietly:
\* close() returns None.
StreamFinish ==
  /\ Len(stack) > 0
  /\ Top = "stream_analyze_uploaded_pe_bytes"
  /\ IF pc = "done" THEN TRUE ELSE pc = "unwind" /\ AllDone
  /\ tmp' = FALSE
  /\ pc' = IF exception = None THEN "returned"
           ELSE IF exception = GeneratorExit THEN "closed" ELSE "raised"
  /\ response' = IF exception = None THEN Return(List(events))
                 ELSE IF exception = GeneratorExit THEN Return(None)
                 ELSE Raise(exception.value)
  /\ stack' = <<>>
  /\ UNCHANGED <<extractVars, runVars, poolVars, results, notifications, events,
                 exception, request, reports, raises, arrived, history>>

\* The consumer closes the generator where it stands after the meta event:
\* GeneratorExit is raised at that yield, before the pool exists, and the finally
\* clause removes the temporary file.
StreamCloseAtMeta ==
  /\ pc = "submit"
  /\ Top = "stream_analyze_uploaded_pe_bytes"
  /\ futures = <<>>
  /\ exception' = GeneratorExit
  /\ tmp' = FALSE
  /\ pc' = "closed"
  /\ response' = Return(None)
  /\ stack' = <<>>
  /\ UNCHANGED <<extractVars, runVars, poolVars, results, notifications, events,
                 request, reports, raises, arrived, history>>

\* One iteration of the loop of the stream that yields an event, at which the
\* consumer closes the generator: GeneratorExit is raised at the yield, is no
\* Exception for the except clause, and leaves the loop; the with-block of the
\* pool then waits for the lookups still queued or running.
StreamCollectClosed ==
  /\ pc = "collect"
  /\ Top = "stream_analyze_uploaded_pe_bytes"
  /\ HasNext
  /\ LET i == NextFuture
         body == StreamBody(futures[i].name, futures[i].outcome, results, events, verbose)
     IN  /\ body.emitted # events
         /\ results' = body.results
         /\ events' = body.emitted
         /\ collected' = collected \cup {i}
  /\ exception' = GeneratorExit
  /\ pc' = "unwind"
  /\ finished' = RestFinished
  /\ waiterQ' = RestWaiterQ
  /\ UNCHANGED <<stack, extractVars, runVars, futures, source, notifications, tmp,
                 response, request, reports, raises, arrived, history>>

\* ------------------------------------------------------------ the functions of utils.core, called directly
Pool ==
  \/ Submit
  \/ AsCompleted
  \/ \E i \in Indices : WorkerStart(i)
  \/ \E i \in Indices : WorkerFinish(i)

Next ==
  \/ /\ pc = "idle"
     /\ \E names \in CandidateLists, v \in BOOLEAN, callback \in BOOLEAN,
           workers \in {1, DefaultMaxWorkers} :
          FetchCall(names, v, workers, callback)
  \/ /\ pc = "idle"
     /\ \E data \in SampleData, v \in BOOLEAN : StreamCall(data, v)
  \/ Pool
  \/ FetchCollect
  \/ FetchReturn
  \/ StreamCollect
  \/ StreamDone
  \/ StreamFinish

Spec == Init /\ [][Next]_vars

\* Every lookup resolves (a worker that can take a task does, check_api ends),
\* the calling thread runs, and the consumer of the stream keeps iterating.
Fairness ==
  /\ WF_vars(Submit)
  /\ WF_vars(AsCompleted)
  /\ WF_vars(\E i \in Indices : WorkerStart(i))
  /\ WF_vars(\E i \in Indices : WorkerFinish(i))
  /\ WF_vars(FetchCollect)
  /\ WF_vars(FetchReturn)
  /\ WF_vars(StreamCollect)
  /\ WF_vars(StreamDone)
  /\ WF_vars(StreamFinish)

\* The runs that notify the most: verbose, with a callback.
NextLive ==
  \/ /\ pc = "idle"
     /\ \E names \in CandidateLists, workers \in {1, DefaultMaxWorkers} :
          FetchCall(names, TRUE, workers, TRUE)
  \/ /\ pc = "idle"
     /\ \E data \in SampleData : StreamCall(data, TRUE)
  \/ Submit
  \/ AsCompleted
  \/ \E i \in Indices : WorkerStart(i)
  \/ \E i \in Indices : WorkerFinish(i)
  \/ FetchCollect
  \/ FetchReturn
  \/ StreamCollect
  \/ StreamDone
  \/ StreamFinish

SpecLive == Init /\ [][NextLive]_vars /\ Fairness

\* ------------------------------------------------------------ extraction, step by step
InitExtract ==
  /\ pe \in ParsedBinaries
  /\ pc = "extract"
  /\ stack = <<"_collect_import_names">>
  /\ cursor = <<1, 1>>
  /\ unique = <<>>
  /\ verbose = FALSE
  /\ on_progress = FALSE
  /\ max_workers = DefaultMaxWorkers
  /\ api_names = <<>>
  /\ futures = <<>>
  /\ source = EmptyDict
  /\ finished = <<>>
  /\ waiterQ = <<>>
  /\ collected = {}
  /\ results = EmptyDict
  /\ notifications = <<>>
  /\ events = <<>>
  /\ exception = None
  /\ tmp = FALSE
  /\ request = None
  /\ reports = EmptyDict
  /\ response = None
  /\ raises = {}
  /\ arrived = <<>>
  /\ history = <<>>

\* One iteration of the inner loop: the import entry under the cursor.
ExtractImport ==
  /\ pc = "extract"
  /\ cursor[1] <= Len(ImportDirectory(pe))
  /\ LET imports == ImportDirectory(pe)[cursor[1]].imports
     IN  /\ cursor[2] <= Len(imports)
         /\ unique' = AddImport(unique, imports[cursor[2]])
         /\ cursor' = <<cursor[1], cursor[2] + 1>>
  /\ UNCHANGED <<pc, stack, pe, runVars, poolVars, results, notifications, events,
                 exception, tmp, response, request, reports, raises, arrived, history>>

\* The inner loop is exhausted: on to the next imported module.
ExtractNextModule ==
  /\ pc = "extract"
  /\ cursor[1] <= Len(ImportDirectory(pe))
  /\ cursor[2] > Len(ImportDirectory(pe)[cursor[1]].imports)
  /\ cursor' = <<cursor[1] + 1, 1>>
  /\ UNCHANGED <<pc, stack, pe, unique, runVars, poolVars, results, notifications,
                 events, exception, tmp, response, request, reports, raises, arrived, history>>

\* The outer loop is exhausted: return unique.
ExtractReturn ==
  /\ pc = "extract"
  /\ cursor[1] > Len(ImportDirectory(pe))
  /\ pc' = "returned"
  /\ stack' = <<>>
  /\ response' = Return(List(unique))
  /\ UNCHANGED <<extractVars, runVars, poolVars, results, notifications, events,
                 exception, tmp, request, reports, raises, arrived, history>>

NextExtract == ExtractImport \/ ExtractNextModule \/ ExtractReturn

SpecExtract == InitExtract /\ [][NextExtract]_vars

\* ------------------------------------------------------------ web_app.py: inputs
\* The "api" field as a string: names, commas and whitespace.
FieldChars == {"x", ",", " ", "\n", "\t"}

\* item.replace("\n", " ").replace("\t", " ").replace(",", " ").split()
Tokens(item) == Split(Replace(Replace(Replace(item, "\n", " "), "\t", " "), ",", " "))

\* The names api_lookup gathers from a list: the tokens of its string items.
RECURSIVE ListNames(_)
ListNames(items) ==
  IF items = <<>> THEN <<>>
  ELSE (IF Head(items).type = "str" THEN Tokens(Head(items).value) ELSE <<>>)
         \o ListNames(Tail(items))

FieldStrings ==
  {s \in UNION {[1..n -> FieldChars] : n \in 0..MaxFieldLen} : Len(Tokens(s)) <= MaxNames}

\* The items of an "api" list: strings, and a value that is no string.
ListItems ==
  {PyInt(7), Str(<<>>), Str(<<",">>), Str(<<"x">>), Str(<<"y">>), Str(<<"x", ",", "x">>)}

FieldLists ==
  {l \in UNION {[1..n -> ListItems] : n \in 0..MaxListLen} : Len(ListNames(l)) <= MaxNames}

ApiFields ==
  {None, PyInt(0), PyInt(7)}
    \cup {Str(s) : s \in FieldStrings}
    \cup {List(l) : l \in FieldLists}

\* request.get_json(silent=True): None (no JSON body), or a JSON object.
LookupBodies ==
  {None, Dict(EmptyDict)} \cup {Dict([k \in {"api"} |-> field]) : field \in ApiFields}

\* An HTTP response: jsonify(body), status.
Json(status, body) == [status |-> status, json |-> body]

\* ------------------------------------------------------------ web_app.py: api_lookup
\* names, as api_lookup builds it from a truthy api_field; a field that is neither a
\* list nor a string has none (the request is rejected).
LookupNames(api_field) ==
  IF api_field.type = "list" THEN ListNames(api_field.value)
  ELSE IF api_field.type = "str" THEN Tokens(api_field.value)
  ELSE <<>>

\* POST /api/lookup up to its return, or up to the call of fetch_api_descriptions.
ApiLookup(body) ==
  /\ pc = "idle"
  /\ request' = body
  /\ LET data == IF Truthy(body) THEN body.value ELSE EmptyDict
         api_field == IF "api" \in DOMAIN data THEN data["api"] ELSE None
         names == LookupNames(api_field)
         reply == IF ~Truthy(api_field)
                  THEN Json(400, [error |-> "Missing 'api' name(s)"])
                  ELSE IF api_field.type \notin {"list", "str"}
                  THEN Json(400, [error |-> "Invalid 'api' format; provide string or array of strings"])
                  ELSE IF names = <<>>
                  THEN Json(200, [results |-> EmptyDict])
                  ELSE None
     IN  IF reply # None
         THEN /\ response' = reply
              /\ pc' = "returned"
              /\ UNCHANGED <<stack, runVars>>
         ELSE /\ stack' = <<"api_lookup", "fetch_api_descriptions">>
              /\ api_names' = names
              /\ verbose' = FALSE
              /\ max_workers' = DefaultMaxWorkers
              /\ on_progress' = FALSE
              /\ pc' = "submit"
              /\ UNCHANGED response
  /\ UNCHANGED <<extractVars, poolVars, results, notifications, events, exception,
                 tmp, reports, raises, arrived, history>>

\* fetch_api_descriptions returns to api_lookup, which answers with the report, or
\* with the error when the call raised.
ApiLookupRespond ==
  /\ stack = <<"api_lookup", "fetch_api_descriptions">>
  /\ PoolLeft
  /\ response' = IF FetchResult.kind = "return"
                 THEN Json(200, [results |-> FetchResult.value.value])
                 ELSE Json(500, [error |-> FetchResult.error])
  /\ pc' = "returned"
  /\ stack' = <<>>
  /\ UNCHANGED <<extractVars, runVars, poolVars, results, notifications, events,
                 exception, tmp, request, reports, raises, arrived, history>>

\* ------------------------------------------------------------ utils.core: write_report
\* datetime.now().strftime("%Y-%m-%d-%H-%M"): the minute of the call.
Timestamps == {"2026-11-04-21-12", "2026-11-04-21-13"}

ReportPath(timestamp) == <<"reports/", timestamp, "_report.log">>

\* What one call of write_report writes.
ReportRecord(report, sample_name) ==
  [sample |-> IF Truthy(Str(sample_name)) THEN Str(sample_name) ELSE None,
   lines |-> report]

\* open(filename, "w"): the record replaces what the file holds.
WriteReportTruncating(files, report, sample_name, timestamp) ==
  Update(files, [f \in {ReportPath(timestamp)} |-> <<ReportRecord(report, sample_name)>>])

\* open(filename, "a"): the record is appended to what the file holds.
WriteReport(files, report, sample_name, timestamp) ==
  LET filename == ReportPath(timestamp)
      before == IF filename \in DOMAIN files THEN files[filename] ELSE <<>>
  IN  Update(files, [f \in {filename} |-> Append(before, ReportRecord(report, sample_name))])

\* ------------------------------------------------------------ web_app.py: api_analyze
\* request.args.get(key, "false").lower() == "true"
Lower(s) == IF s = "TRUE" THEN "true" ELSE s
Flag(args, key) == Lower(IF key \in DOMAIN args THEN args[key] ELSE "false") = "true"

ArgValues == {"true", "TRUE", "false"}
QueryArgs ==
  UNION {[keys -> ArgValues] : keys \in SUBSET {"verbose", "export", "stream"}}

\* secure_filename(file.filename or "uploaded.bin") on the names uploaded here.
Filenames == {<<>>, <<"../", "a.exe">>}
SecureFilename(filename) ==
  LET name == IF filename = <<>> THEN <<"uploaded.bin">> ELSE filename
  IN  SelectSeq(name, LAMBDA part : part # "../")

\* request.files: no "file" field, or an uploaded file.
Uploads ==
  {EmptyDict}
    \cup {[k \in {"file"} |-> [filename |-> f, data |-> d]] :
            f \in Filenames, d \in {EmptyData} \cup SampleData}

\* POST /api/analyze up to its return, up to the first event of the stream, or up
\* to the call of fetch_api_descriptions inside analyze_pe.
ApiAnalyze(args, files) ==
  /\ pc = "idle"
  /\ LET v == Flag(args, "verbose")
         do_export == Flag(args, "export")
         stream == Flag(args, "stream")
         missing == "file" \notin DOMAIN files
         data == IF missing THEN EmptyData ELSE files["file"].data
         filename == IF missing THEN <<>> ELSE SecureFilename(files["file"].filename)
         parsed == ParsePE(data)
     IN  IF missing \/ data = EmptyData
         THEN /\ response' = IF missing
                             THEN Json(400, [error |-> "No file provided. Use multipart/form-data with 'file' field."])
                             ELSE Json(400, [error |-> "Empty file."])
              /\ pc' = "returned"
              /\ UNCHANGED <<stack, extractVars, runVars, poolVars, results,
                             notifications, events, exception, tmp, request, reports, raises, arrived, history>>
         ELSE IF stream /\ v
         THEN /\ StreamStart(<<"api_analyze.generate">>, data, TRUE)
              /\ request' = [do_export |-> do_export, filename |-> filename, data |-> data]
         ELSE /\ request' = [do_export |-> do_export, filename |-> filename, data |-> data]
              /\ verbose' = v
              /\ IF parsed.kind = "raise"
                 THEN \* analyze_pe raises; the file is removed; api_analyze answers 500
                      /\ response' = Json(500, [error |-> parsed.error])
                      /\ pc' = "returned"
                      /\ tmp' = FALSE
                      /\ UNCHANGED <<stack, extractVars, on_progress, max_workers, api_names>>
                 ELSE /\ pe' = parsed.value
                      /\ unique' = CollectImportNames(parsed.value)
                      /\ api_names' = unique'
                      /\ max_workers' = DefaultMaxWorkers
                      /\ on_progress' = FALSE
                      /\ tmp' = TRUE
                      /\ stack' = <<"api_analyze", "analyze_uploaded_pe_bytes", "analyze_pe",
                                    "fetch_api_descriptions">>
                      /\ pc' = "submit"
                      /\ UNCHANGED <<cursor, response>>
              /\ UNCHANGED <<poolVars, results, notifications, events, exception, reports, raises, arrived, history>>

\* fetch_api_descriptions returns through analyze_pe to analyze_uploaded_pe_bytes,
\* whose finally clause removes the temporary file; api_analyze writes the report
\* when asked to and answers.
ApiAnalyzeRespond ==
  /\ Len(stack) > 0
  /\ stack[1] = "api_analyze"
  /\ PoolLeft
  /\ tmp' = FALSE
  /\ \E timestamp \in Timestamps :
       LET written == FetchResult.kind = "return" /\ request.do_export
       IN  /\ reports' = IF written
                         THEN WriteReport(reports, FetchResult.value.value, request.filename, timestamp)
                         ELSE reports
           /\ response' = IF FetchResult.kind = "return"
                          THEN Json(200, [results |-> FetchResult.value.value,
                                          export_path |-> IF written THEN Str(ReportPath(timestamp))
                                                          ELSE None])
                          ELSE Json(500, [error |-> FetchResult.error])
  /\ pc' = "returned"
  /\ stack' = <<>>
  /\ UNCHANGED <<extractVars, runVars, poolVars, results, notifications, events,
                 exception, request, raises, arrived, history>>

\* ------------------------------------------------------------ the endpoints of web_app.py
NextApi ==
  \/ /\ pc = "idle"
     /\ \E body \in LookupBodies : ApiLookup(body)
  \/ /\ pc = "idle"
     /\ \E args \in QueryArgs, files \in Uploads : ApiAnalyze(args, files)
  \/ Pool
  \/ FetchCollect
  \/ ApiLookupRespond
  \/ ApiAnalyzeRespond
  \/ StreamCollect
  \/ StreamDone
  \/ StreamFinish

SpecApi == Init /\ [][NextApi]_vars

\* ------------------------------------------------------------ the same candidates run twice
\* One call that has ended, as the history keeps it.
Ended(call, arguments, result) == [call |-> call, arguments |-> arguments, result |-> result]

\* fetch_api_descriptions has returned and is called again on the same names,
\* against the same description source, with a pool of `workers` workers.
FetchAgain(workers) ==
  /\ pc = "returned"
  /\ history = <<>>
  /\ history' = <<Ended("fetch_api_descriptions",
                         [api_names |-> api_names, max_workers |-> max_workers],
                         response)>>
  /\ max_workers' = workers
  /\ futures' = <<>>
  /\ finished' = <<>>
  /\ waiterQ' = <<>>
  /\ collected' = {}
  /\ results' = EmptyDict
  /\ response' = None
  /\ stack' = <<"fetch_api_descriptions">>
  /\ pc' = "submit"
  /\ UNCHANGED <<extractVars, verbose, on_progress, api_names, source, notifications,
                 events, exception, tmp, request, reports, raises, arrived>>

NextWorkers ==
  \/ /\ pc = "idle"
     /\ \E names \in CandidateLists, workers \in {1, DefaultMaxWorkers} :
          FetchCall(names, FALSE, workers, FALSE)
  \/ Pool
  \/ FetchCollect
  \/ FetchReturn
  \/ /\ pc = "returned"
     /\ \E workers \in {1, DefaultMaxWorkers} : FetchAgain(workers)

SpecWorkers == Init /\ [][NextWorkers]_vars

\* ------------------------------------------------------------ write_report, called again and again
\* The reports handed to write_report, and the sample names (none, or one).
SampleReports == {EmptyDict, [k \in {<<"x">>} |-> <<"d">>]}
SampleNames == {<<>>, <<"a.exe">>}

\* write_report(results, sample_name) is called at a minute `timestamp` of the
\* clock and returns the path it wrote to.
WriteReportCall(report, sample_name, timestamp) ==
  /\ pc = "idle"
  /\ Len(history) < MaxReports
  /\ reports' = WriteReport(reports, report, sample_name, timestamp)
  /\ response' = Return(Str(ReportPath(timestamp)))
  /\ history' = Append(history, Ended("write_report",
                                      [results |-> report, sample_name |-> sample_name],
                                      response'))
  /\ UNCHANGED <<pc, stack, extractVars, runVars, poolVars, results, notifications,
                 events, exception, tmp, request, raises, arrived>>

NextReports ==
  \E report \in SampleReports, sample_name \in SampleNames, timestamp \in Timestamps :
    WriteReportCall(report, sample_name, timestamp)

SpecReports == Init /\ [][NextReports]_vars

\* ------------------------------------------------------------ the pool under observation
\* What an observer of the pool notes when a future completes: which one, and
\* whether as_completed had not been called yet.
Arrival(i) == [future |-> i, early |-> pc = "submit"]

\* The steps of the pool and of the collecting loops with the observer attached:
\* a completion is noted, a collected future is struck off.
ObservedFinish(i) == Completes(i) /\ arrived' = Append(arrived, Arrival(i))
ObservedFetchCollect ==
  FetchIteration /\ arrived' = SelectSeq(arrived, LAMBDA a : a.future # NextFuture)
ObservedStreamCollect ==
  StreamIteration /\ arrived' = SelectSeq(arrived, LAMBDA a : a.future # NextFuture)

NextArrival ==
  \/ /\ pc = "idle"
     /\ \E names \in CandidateLists, workers \in {1, 2, DefaultMaxWorkers} :
          FetchCall(names, FALSE, workers, FALSE)
  \/ /\ pc = "idle"
     /\ \E data \in SampleData : StreamCall(data, FALSE)
  \/ Submit
  \/ AsCompleted
  \/ \E i \in Indices : WorkerStart(i)
  \/ \E i \in Indices : ObservedFinish(i)
  \/ ObservedFetchCollect
  \/ FetchReturn
  \/ ObservedStreamCollect
  \/ StreamDone
  \/ StreamFinish

SpecArrival == Init /\ [][NextArrival]_vars

\* ------------------------------------------------------------ callbacks that raise
\* The kinds of notification a progress callback may raise on.
Kinds == {"hit", "miss", "error"}

\* fetch_api_descriptions is called with a progress callback that raises on the
\* notifications of the kinds in `raising`.
FetchCallRaising(names, v, raising) ==
  /\ pc = "idle"
  /\ stack' = <<"fetch_api_descriptions">>
  /\ api_names' = names
  /\ verbose' = v
  /\ max_workers' = DefaultMaxWorkers
  /\ on_progress' = TRUE
  /\ raises' = raising
  /\ pc' = "submit"
  /\ UNCHANGED <<extractVars, poolVars, results, notifications, events, exception,
                 tmp, response, request, reports, arrived, history>>

NextCallback ==
  \/ /\ pc = "idle"
     /\ \E names \in CandidateLists, v \in BOOLEAN, raising \in SUBSET Kinds :
          FetchCallRaising(names, v, raising)
  \/ Pool
  \/ FetchCollect
  \/ FetchReturn

SpecCallback == Init /\ [][NextCallback]_vars

\* ------------------------------------------------------------ analyze_uploaded_pe_bytes, and streams that are closed
\* analyze_uploaded_pe_bytes(data, verbose) is called: the temporary file is
\* written and analyze_pe parses it, extracts the candidates and calls
\* fetch_api_descriptions; or the parse raises and the finally clause removes the
\* file.
AnalyzeCall(data, v) ==
  LET parsed == ParsePE(data)
  IN  /\ pc = "idle"
      /\ verbose' = v
      /\ IF parsed.kind = "raise"
         THEN /\ exception' = Str(parsed.error)
              /\ response' = Raise(parsed.error)
              /\ pc' = "raised"
              /\ tmp' = FALSE
              /\ UNCHANGED <<stack, extractVars, on_progress, max_workers, api_names>>
         ELSE /\ pe' = parsed.value
              /\ unique' = CollectImportNames(parsed.value)
              /\ api_names' = unique'
              /\ max_workers' = DefaultMaxWorkers
              /\ on_progress' = FALSE
              /\ tmp' = TRUE
              /\ stack' = <<"analyze_uploaded_pe_bytes", "analyze_pe",
                            "fetch_api_descriptions">>
              /\ pc' = "submit"
              /\ UNCHANGED <<cursor, exception, response>>
      /\ UNCHANGED <<poolVars, results, notifications, events, request, reports,
                     raises, arrived, history>>

\* fetch_api_descriptions returns through analyze_pe to
\* analyze_uploaded_pe_bytes, whose finally clause removes the temporary file.
AnalyzeReturn ==
  /\ Len(stack) > 0
  /\ stack[1] = "analyze_uploaded_pe_bytes"
  /\ PoolLeft
  /\ tmp' = FALSE
  /\ response' = FetchResult
  /\ pc' = IF exception = None THEN "returned" ELSE "raised"
  /\ stack' = <<>>
  /\ UNCHANGED <<extractVars, runVars, poolVars, results, notifications, events,
                 exception, request, reports, raises, arrived, history>>

NextTemp ==
  \/ /\ pc = "idle"
     /\ \E data \in {EmptyData} \cup SampleData, v \in BOOLEAN : AnalyzeCall(data, v)
  \/ /\ pc = "idle"
     /\ \E data \in {EmptyData} \cup SampleData, v \in BOOLEAN : StreamCall(data, v)
  \/ Pool
  \/ FetchCollect
  \/ AnalyzeReturn
  \/ StreamCloseAtMeta
  \/ StreamCollect
  \/ StreamCollectClosed
  \/ StreamDone
  \/ StreamFinish

SpecTemp == Init /\ [][NextTemp]_vars

\* ------------------------------------------------------------ what the claims speak of
\* The outcome the description source has fixed for a name it was asked:
\* a non-empty description, an error, or neither (a miss).
Asked(name) == name \in DOMAIN source
Fails(name) == Asked(name) /\ source[name].status >= 400
HasDescription(name) ==
  /\ Asked(name)
  /\ source[name].status < 400
  /\ Len(source[name].details) >= 2
  /\ \E i \in 1..Len(source[name].details[2]) : ~IsSpace(source[name].details[2][i])
Misses(name) == Asked(name) /\ ~Fails(name) /\ ~HasDescription(name)

\* The description with the whitespace around it removed.
DescriptionOf(name) ==
  LET text == source[name].details[2]
      inner == {i \in 1..Len(text) : ~IsSpace(text[i])}
      first == CHOOSE i \in inner : \A j \in inner : i <= j
      last == CHOOSE i \in inner : \A j \in inner : j <= i
  IN  SubSeq(text, first, last)

Candidates == Range(api_names)

\* The callback's calls for a name, by kind.
ErrorCalls(name) ==
  {i \in 1..Len(notifications) :
     notifications[i].name = name /\ notifications[i].error # None}
MissCalls(name) ==
  {i \in 1..Len(notifications) :
     /\ notifications[i].name = name
     /\ notifications[i].error = None
     /\ notifications[i].hit = None}

\* The stream's events for a name, by kind.
EventsOf(kind) == {i \in 1..Len(events) : events[i].event = kind}
NameEvents(name) ==
  {i \in 1..Len(events) : events[i].event \in {"hit", "log"} /\ events[i].name = name}
ErrorEvents(name) == {i \in NameEvents(name) : events[i] = ErrorEvent(name, HTTPErrorMessage(source[name]))}
MissEvents(name) == {i \in NameEvents(name) : events[i] = MissEvent(name)}

\* A run of fetch_api_descriptions called directly has returned / a stream run.
FetchReturned ==
  /\ pc = "returned"
  /\ "kind" \in DOMAIN response
  /\ response.kind = "return"
  /\ response.value.type = "dict"
StreamRun == events # <<>>
StreamEnded == StreamRun /\ pc = "returned"

\* The future of a name has completed: its lookup has resolved.
Resolved(name) == \E i \in Indices : futures[i].name = name /\ futures[i].state = "done"

\* ------------------------------------------------------------ claims

\* C1: fetch_api_descriptions, run with verbose on and a progress callback on a
\* candidate set, returns a report that maps exactly the names with a non-empty
\* description to that description, and the callback has received exactly one
\* error notification, carrying the error message, for each failing name and
\* exactly one miss notification for each name without a description.
C1_ReportAndNotifications ==
  (FetchReturned /\ on_progress /\ verbose) =>
    LET report == response.value.value
    IN  /\ \A name \in Candidates : Asked(name)
        /\ DOMAIN report = {name \in Candidates : HasDescription(name)}
        /\ \A name \in DOMAIN report : report[name] = DescriptionOf(name)
        /\ \A name \in Candidates :
             /\ Fails(name) =>
                  /\ Cardinality(ErrorCalls(name)) = 1
                  /\ \A i \in ErrorCalls(name) :
                       notifications[i] =
                         Notification(name, None, Str(HTTPErrorMessage(source[name])))
             /\ Misses(name) => Cardinality(MissCalls(name)) = 1

\* A verbose run with a callback over a hit, a failing name and a miss has returned.
C1_Witness ==
  /\ FetchReturned /\ on_progress /\ verbose
  /\ \E a, b, c \in Candidates : HasDescription(a) /\ Fails(b) /\ Misses(c)

\* C2: whatever lookups fail, a pipeline run neither raises nor aborts: no
\* exception leaves a run that has submitted lookups, and when the run ends every
\* candidate's lookup has run to completion and been classified, and every name
\* whose lookup hit is in the report.
C2_NeverRaisesOnLookupFailure ==
  /\ (pc \in {"unwind", "raised"} \/ exception # None) => futures = <<>>
  /\ ("kind" \in DOMAIN response /\ response.kind = "raise") => futures = <<>>
  /\ (pc \in {"done", "returned"}) =>
       /\ Len(futures) = Len(api_names)
       /\ AllDone
       /\ collected = Indices
       /\ \A name \in Candidates : HasDescription(name) => name \in DOMAIN results
  /\ FetchReturned =>
       \A name \in Candidates : HasDescription(name) => name \in DOMAIN response.value.value

\* A run has ended in which a lookup failed and another hit, and one in which
\* every lookup failed.
C2_Witness ==
  /\ pc = "returned"
  /\ Len(api_names) >= 2
  /\ \E a, b \in Candidates : Fails(a) /\ HasDescription(b) /\ b \in DOMAIN results

\* C3: at every point of a run and at its end the keys of the report are
\* candidate names of the run, and no description stored is the empty string.
\* (A key occurs once in a dict.)
C3_ReportWithinCandidates ==
  /\ DOMAIN results \subseteq Candidates
  /\ \A name \in DOMAIN results : results[name] # <<>>
  /\ FetchReturned =>
       /\ DOMAIN response.value.value \subseteq Candidates
       /\ \A name \in DOMAIN response.value.value : response.value.value[name] # <<>>

\* A run has ended whose report holds some of the candidates and not others, one
\* of those left out being a name whose page has a blank description.
C3_Witness ==
  /\ FetchReturned
  /\ DOMAIN response.value.value # {}
  /\ \E name \in Candidates :
       /\ name \notin DOMAIN response.value.value
       /\ Misses(name)
       /\ Len(source[name].details) >= 2

\* C4: the events of a stream hold one meta event, the first of them, so before
\* every hit and log event, and at most one done event, after which there is
\* none; a stream that has ended holds exactly one done event, its last event.
C4_MetaFirstDoneLast ==
  StreamRun =>
    /\ EventsOf("meta") = {1}
    /\ Cardinality(EventsOf("done")) <= 1
    /\ EventsOf("done") \subseteq {Len(events)}
    /\ (pc \in {"done", "returned"}) => EventsOf("done") = {Len(events)}

\* A stream over several candidates has ended with a hit and a log event
\* between meta and done.
C4_Witness ==
  /\ StreamEnded
  /\ Len(api_names) >= 2
  /\ EventsOf("hit") # {}
  /\ EventsOf("log") # {}

\* C9, as claimed: with verbose every miss and every error is a log event as it
\* happens, and without verbose no log event is emitted, for a miss or an error.
C9_AsClaimed ==
  StreamRun =>
    /\ verbose =>
         \A i \in collected :
           /\ Fails(futures[i].name) => ErrorEvents(futures[i].name) # {}
           /\ Misses(futures[i].name) => MissEvents(futures[i].name) # {}
    /\ ~verbose => EventsOf("log") = {}

\* C9, amended: every error is a log event as soon as its future is collected,
\* with or without verbose; a miss is a log event as soon as it is collected with
\* verbose, and never without.
C9_ErrorsAlwaysLogged ==
  StreamRun =>
    /\ \A i \in collected :
         /\ Fails(futures[i].name) => ErrorEvents(futures[i].name) # {}
         /\ (verbose /\ Misses(futures[i].name)) => MissEvents(futures[i].name) # {}
    /\ ~verbose => \A name \in Candidates : MissEvents(name) = {}

\* A stream without verbose has ended that logged an error and kept a miss silent.
C9_Witness ==
  /\ StreamEnded
  /\ ~verbose
  /\ \E a, b \in Candidates :
       Fails(a) /\ ErrorEvents(a) # {} /\ Misses(b) /\ NameEvents(b) = {}

\* How many times a name has been notified: calls of the callback and events of
\* the stream that carry it.
NotifiedTimes(name) ==
  Cardinality({i \in 1..Len(notifications) : notifications[i].name = name})
    + Cardinality(NameEvents(name))
ReportsProgress == on_progress \/ StreamRun

LookupField ==
  IF "type" \in DOMAIN request /\ request.type = "dict" /\ "api" \in DOMAIN request.value
  THEN request.value["api"]
  ELSE None

Separators == {" ", "\t", "\n", ","}
OnlySeparators(s) == \A i \in 1..Len(s) : s[i] \in Separators

\* The answer is the empty report, and the description source was not contacted.
EmptyReportWithoutLookup ==
  /\ response.status = 200
  /\ DOMAIN response.json = {"results"}
  /\ DOMAIN response.json.results = {}
  /\ futures = <<>>
  /\ DOMAIN source = {}

\* C5, as claimed: api_lookup given a string that is empty or holds only
\* whitespace and separators answers with an empty report, not an error, and
\* issues no lookup.
C5_AsClaimed ==
  (/\ pc = "returned"
   /\ LookupField.type = "str"
   /\ OnlySeparators(LookupField.value)) => EmptyReportWithoutLookup

\* C6, as claimed: api_lookup given a list that holds no names (the empty list, or
\* items that yield no token) answers with an empty report, not an error.
C6_AsClaimed ==
  (/\ pc = "returned"
   /\ LookupField.type = "list"
   /\ \A i \in 1..Len(LookupField.value) :
        LookupField.value[i].type = "str" => OnlySeparators(LookupField.value[i].value))
    => (response.status = 200 /\ DOMAIN response.json = {"results"}
          /\ DOMAIN response.json.results = {})

\* The import entries of the executable, and the names they carry once decoded
\* and trimmed.
Entries == UNION {Range(module.imports) : module \in Range(ImportDirectory(pe))}
ImportedNames ==
  {Strip(imp.name.value) :
     imp \in {e \in Entries : "name" \in DOMAIN e /\ e.name # None /\ Decodable(e.name.value)}}
    \ {<<>>}

\* A name ends in A or W after a non-empty prefix; the same prefix with the
\* other suffix.
HasSuffix(name) == Len(name) > 1 /\ name[Len(name)] \in {"A", "W"}
OtherSuffix(name) ==
  [i \in 1..Len(name) |->
     IF i < Len(name) THEN name[i] ELSE IF name[i] = "A" THEN "W" ELSE "A"]

\* C7, as claimed: no counterpart is synthesized for an import name that does not
\* end in A or W, nor for the one-character names "A" and "W": the candidate set
\* holds only trimmed import names and counterparts of import names that have a
\* non-empty prefix.
C7_AsClaimed ==
  pc = "returned" =>
    Range(unique) \subseteq
      ImportedNames \cup {OtherSuffix(name) : name \in {n \in ImportedNames : HasSuffix(n)}}

\* C8: every candidate name, imported or synthesized, that ends in A or W after a
\* non-empty prefix has its counterpart in the candidate set, after each import
\* entry handled and so after extraction.
C8_CounterpartPresent ==
  \A name \in Range(unique) : HasSuffix(name) => OtherSuffix(name) \in Range(unique)

\* Extraction has returned a set holding xW only as the counterpart of the
\* import " xA".
C8_Witness ==
  /\ pc = "returned"
  /\ stack = <<>>
  /\ <<"x", "A">> \in ImportedNames
  /\ <<"x", "W">> \notin ImportedNames
  /\ <<"x", "W">> \in Range(unique)

\* The call of fetch_api_descriptions that ended before the running one.
Earlier == history[1]

\* C11: for any candidate set and any fixed description source, the report
\* fetch_api_descriptions returns does not depend on the size of the pool: a run
\* with one worker and a run with twelve on the same names against the same
\* source return the same report, whichever comes first and under every order of
\* completion.
C11_SameReportForAnyPoolSize ==
  (FetchReturned /\ history # <<>>) =>
    /\ Earlier.arguments.api_names = api_names
    /\ Earlier.result = response
    /\ DOMAIN response.value.value = {name \in Candidates : HasDescription(name)}

\* A run with one worker and then a run with twelve have returned, over several
\* names of which two hit and one failed.
C11_Witness ==
  /\ FetchReturned
  /\ history # <<>>
  /\ Earlier.arguments.max_workers = 1
  /\ max_workers = DefaultMaxWorkers
  /\ Cardinality(DOMAIN response.value.value) >= 2
  /\ \E name \in Candidates : Fails(name)

\* POST /api/analyze has been answered, or the stream it answered with has ended,
\* for an upload that is not empty.
AnalyzeEnded == pc \in {"returned", "raised"} /\ "data" \in DOMAIN request

\* The caller got an error and no report: a 500 answer that carries the error
\* only, or the exception that leaves the stream.
ErrorReported ==
  IF "status" \in DOMAIN response
  THEN response.status = 500 /\ DOMAIN response.json = {"error"}
  ELSE "kind" \in DOMAIN response /\ response.kind = "raise" /\ events = <<>>

\* The caller got the empty report: a 200 answer whose results are empty, or a
\* stream of no candidates run to its end.
EmptyReportReturned ==
  IF "status" \in DOMAIN response
  THEN /\ response.status = 200
       /\ "results" \in DOMAIN response.json
       /\ DOMAIN response.json.results = {}
  ELSE /\ "kind" \in DOMAIN response
       /\ response.kind = "return"
       /\ response.value = List(<<MetaEvent(0), DoneEvent>>)

\* C12: analyzing content that does not parse as an executable ends in an error
\* reported to the caller, with no lookup issued, no report returned and none
\* written; analyzing an executable without an import directory ends with the
\* empty report and no lookup; the caller can tell the two apart.
C12_ParseFailureIsAnError ==
  AnalyzeEnded =>
    /\ request.data = GarbageData =>
         /\ ErrorReported
         /\ ~EmptyReportReturned
         /\ futures = <<>> /\ DOMAIN source = {}
         /\ DOMAIN results = {} /\ DOMAIN reports = {}
    /\ request.data = PEData([machine |-> "x86"]) =>
         /\ EmptyReportReturned
         /\ ~ErrorReported
         /\ futures = <<>> /\ DOMAIN source = {}

\* Content that is no executable was uploaded with a request to export the
\* report, and answered with the parse error.
C12_Witness ==
  /\ AnalyzeEnded
  /\ request.data = GarbageData
  /\ request.do_export
  /\ "status" \in DOMAIN response
  /\ response.status = 500
  /\ response.json.error = <<"PEFormatError">>

\* An import entry carries a name: it has one, which decodes and is not empty
\* once trimmed.
Named(imp) ==
  /\ "name" \in DOMAIN imp
  /\ imp.name # None
  /\ Decodable(imp.name.value)
  /\ \E i \in 1..Len(imp.name.value) : ~IsSpace(imp.name.value[i])

\* C13: _collect_import_names returns the empty candidate set whenever the binary
\* has no named import: no import directory, modules without entries, or entries
\* that are all by ordinal, empty once trimmed, or undecodable; and the set is
\* empty at every step of such an extraction.
C13_NoNamedImportsNoCandidates ==
  (\A imp \in Entries : ~Named(imp)) =>
    /\ unique = <<>>
    /\ pc = "returned" => response = Return(List(<<>>))

\* Extraction has returned from a binary whose entries are an undecodable name
\* and another nameless kind (by ordinal, or blank).
C13_Witness ==
  /\ pc = "returned"
  /\ response = Return(List(<<>>))
  /\ [name |-> Bytes(<<BadByte>>)] \in Entries
  /\ \E imp \in Entries : "name" \notin DOMAIN imp \/ imp = [name |-> Bytes(<<" ">>)]

\* The calls of write_report so far that returned `path`, oldest first, and the
\* record each of them was to write.
CallsReturning(path) == SelectSeq(history, LAMBDA call : call.result.value.value = path)
RecordOf(call) == ReportRecord(call.arguments.results, call.arguments.sample_name)

\* C14: write_report never overwrites the record of an earlier call: after any
\* sequence of calls, also calls within one minute of the clock, the file at the
\* path a call returned holds the record of that call, whole, at the place it was
\* written, after the records of the calls before it and before those of the
\* calls after it.
C14_ReportsNeverOverwritten ==
  \A i \in 1..Len(history) :
    LET path == history[i].result.value.value
        calls == CallsReturning(path)
    IN  /\ path \in DOMAIN reports
        /\ Len(reports[path]) = Len(calls)
        /\ \A k \in 1..Len(calls) : reports[path][k] = RecordOf(calls[k])

\* Three calls, the first and the last in the same minute with different
\* reports, the one between in another minute.
C14_Witness ==
  /\ Len(history) = 3
  /\ history[1].result = history[3].result
  /\ history[1].result # history[2].result
  /\ RecordOf(history[1]) # RecordOf(history[3])
  /\ Len(reports[history[1].result.value.value]) = 2

\* The lookups in flight: started and not yet resolved.
InFlight == InState("running")

\* The future the collecting loop takes next completed only once as_completed
\* had been called.
NextIsLate == \E k \in 1..Len(arrived) : arrived[k].future = NextFuture /\ ~arrived[k].early

\* C15, as claimed: the lookups in flight never exceed the size of the pool, and
\* completions are collected in arrival order: the future collected next is the
\* one that completed first among those not yet collected.
C15_AsClaimed ==
  /\ Cardinality(InFlight) <= max_workers
  /\ (pc = "collect" /\ HasNext) => NextFuture = Head(arrived).future

\* C15, amended: the lookups in flight never exceed the size of the pool; a future
\* is collected only once complete; the futures that complete after as_completed
\* is called are collected in arrival order, after all those that had completed
\* before, which are collected in no particular order.
C15_InFlightBoundedLateInOrder ==
  /\ Cardinality(InFlight) <= max_workers
  /\ (pc = "collect" /\ HasNext) =>
       /\ futures[NextFuture].state = "done"
       /\ NextIsLate => NextFuture = Head(arrived).future

\* With a pool of two, the second of three lookups completed while the loop was
\* waiting and is taken next, the first and the third still being in flight.
C15_Witness ==
  /\ pc = "collect"
  /\ max_workers = 2
  /\ Len(futures) = 3
  /\ InFlight = {1, 3}
  /\ HasNext
  /\ NextFuture = 2
  /\ NextIsLate

\* The lookup tasks submitted for a name: each contacts the description source
\* once.
TasksFor(name) == {i \in Indices : futures[i].name = name}

\* C16, as claimed: in one pipeline run each candidate name gets exactly one
\* lookup task and never two, whether the run starts from an extracted candidate
\* set or from the string or list of names of a batch lookup.
C16_AsClaimed ==
  \A name \in Candidates :
    /\ Cardinality(TasksFor(name)) <= 1
    /\ pc \in {"collect", "done", "returned"} => Cardinality(TasksFor(name)) = 1

\* A run of fetch_api_descriptions called directly / of the stream is under way.
FetchRunning == stack = <<"fetch_api_descriptions">>
StreamRunning == stack = <<"stream_analyze_uploaded_pe_bytes">>
DoneEmitted == EventsOf("done") # {}

\* C17: if every lookup resolves, fetch_api_descriptions returns and the stream
\* emits done; neither happens while a submitted lookup is outstanding or
\* uncollected, and once the report is returned it is final: nothing is recorded
\* or notified after it.
C17_TerminatesWhenLookupsResolve ==
  /\ FetchRunning ~> FetchReturned
  /\ StreamRunning ~> DoneEmitted
  /\ []((FetchReturned \/ DoneEmitted) =>
          /\ Len(futures) = Len(api_names)
          /\ AllDone
          /\ collected = Indices)
  /\ [][(FetchReturned \/ DoneEmitted) =>
          /\ results' = results
          /\ notifications' = notifications
          /\ futures' = futures]_vars

\* A run with a single worker over three names has returned, every lookup
\* resolved and collected.
C17_Witness ==
  /\ FetchReturned
  /\ max_workers = 1
  /\ Len(futures) = 3
  /\ AllDone
  /\ collected = Indices

\* A step of a worker thread: a future changes state (a lookup starts or ends).
\* A write to the shared state: the report, the notifications or the events.
WorkerStep ==
  \E i \in Indices : i \in DOMAIN futures' /\ futures'[i].state # futures[i].state
Written == results' # results \/ notifications' # notifications \/ events' # events

\* C18: the report and the notification sequence are written only by the
\* collecting thread: no step of a worker running check_api writes to either, and
\* each write in the loop (all but the final done event) belongs to the
\* collection of one completed future, so
\* that under every interleaving of completions the writes are made one at a
\* time.
C18_OnlyCollectorWrites ==
  [][/\ WorkerStep => ~Written
     /\ (Written /\ pc = "collect" /\ pc' # "done") =>
          /\ Cardinality(collected' \ collected) = 1
          /\ \A i \in collected' \ collected : futures[i].state = "done"]_vars

\* The collecting thread has recorded a hit and notified it while a lookup is
\* still running in a worker.
C18_Witness ==
  /\ pc = "collect"
  /\ InState("running") # {}
  /\ DOMAIN results # {}
  /\ notifications # <<>>

\* The callback's calls for a name.
Calls(name) == {i \in 1..Len(notifications) : notifications[i].name = name}

\* C19, as claimed: whatever the progress callback does, also when it raises on
\* the hit notification, a name whose lookup returned a non-empty description is
\* notified at most once and gets no error notification; error notifications go
\* only to names whose lookup failed.
C19_AsClaimed ==
  \A name \in Candidates :
    /\ HasDescription(name) => Cardinality(Calls(name)) <= 1 /\ ErrorCalls(name) = {}
    /\ ErrorCalls(name) # {} => Fails(name)

\* An operation on uploaded bytes is in progress / has ended.
InProgress == Len(stack) > 0
OperationEnded == pc \in {"returned", "raised", "closed"}

====
